---- MODULE Spec2Model ----
(***************************************************************************)
(* Link matching and snapshot reconciliation of the auction monitors       *)
(* (scraper/megaleiloes_monitor.py and scraper/sodre_monitor.py).          *)
(*                                                                         *)
(* Text is a sequence of one-character strings, so that parsing, trimming  *)
(* and truncation are computed character by character.                     *)
(***************************************************************************)
EXTENDS Integers, Sequences, FiniteSets, TLC

(***************************************************************************)
(* Bounds of the model.                                                    *)
(***************************************************************************)
MaxLen == 3
MaxFullPages == 2
MaxTail == 2
MaxObs == 2
MaxSec == 1
MaxRuns == 2
MaxSpans == 2

(***************************************************************************)
(* Text helpers (Python str methods used by the monitors).                 *)
(***************************************************************************)

\* s.find(c, start) on 1-based positions: the lowest i >= from with s[i] = c, 0 if none
LowestOf(hits) == IF hits = {} THEN 0 ELSE CHOOSE i \in hits : \A j \in hits : i <= j

HighestOf(hits) == IF hits = {} THEN 0 ELSE CHOOSE i \in hits : \A j \in hits : j <= i

Find(s, c, from) == LowestOf({i \in from..Len(s) : s[i] = c})

\* s.rfind(c): the highest i with s[i] = c, 0 if none
RFind(s, c) == HighestOf({i \in 1..Len(s) : s[i] = c})

\* s.rstrip(c): every trailing c is removed
rstrip(s, c) == SubSeq(s, 1, HighestOf({i \in 1..Len(s) : s[i] # c}))

\* s[:n]
Prefix(s, n) == SubSeq(s, 1, IF n < Len(s) THEN n ELSE Len(s))

\* s[n:] for a 1-based first position n
Suffix(s, n) == SubSeq(s, n, Len(s))

Letters ==
    {"a", "b", "c", "d", "e", "f", "g", "h", "i", "j", "k", "l", "m", "n", "o", "p",
     "q", "r", "s", "t", "u", "v", "w", "x", "y", "z", "H"}
Digits == {"0", "1", "2", "3", "4", "5", "6", "7", "8", "9"}
scheme_chars == Letters \cup Digits \cup {"+", "-", "."}

lower(c) == IF c = "H" THEN "h" ELSE c

Lowered(s) == [i \in 1..Len(s) |-> lower(s[i])]

\* urllib.parse.uses_params
uses_params ==
    { <<>>,
      <<"f","t","p">>,
      <<"h","d","l">>,
      <<"h","t","t","p">>,
      <<"h","t","t","p","s">>,
      <<"s","h","t","t","p">>,
      <<"s","i","p">>,
      <<"s","i","p","s">>,
      <<"t","e","l">> }

\* the lowest member of a non-empty set of positions, or `none` for the empty set
FirstOf(positions, none) ==
    IF positions = {} THEN none ELSE CHOOSE i \in positions : \A j \in positions : i <= j

\* u.split(c, 1) given the position of the first c in u (0: no c)
SplitAtPos(u, pos) ==
    IF pos > 0
    THEN [head |-> SubSeq(u, 1, pos - 1), tail |-> Suffix(u, pos + 1)]
    ELSE [head |-> u, tail |-> <<>>]

SplitOn(u, c) == SplitAtPos(u, Find(u, c, 1))

\* urlsplit: the scheme, given the position of the first colon. The text before it is
\* a scheme when it starts with a letter and holds scheme characters only.
SplitSchemeAt(url, colon) ==
    IF /\ colon > 1
       /\ url[1] \in Letters
       /\ \A i \in 1..(colon - 1) : url[i] \in scheme_chars
    THEN [scheme |-> Lowered(SubSeq(url, 1, colon - 1)), rest |-> Suffix(url, colon + 1)]
    ELSE [scheme |-> <<>>, rest |-> url]

SplitScheme(url) == SplitSchemeAt(url, Find(url, ":", 1))

\* urllib.parse._splitnetloc(url, 2): the authority ends at the first of / ? #
SplitNetlocAt(url, delim) ==
    [netloc |-> SubSeq(url, 3, delim - 1), rest |-> Suffix(url, delim)]

SplitNetloc(url) ==
    SplitNetlocAt(url, FirstOf({i \in 3..Len(url) : url[i] \in {"/", "?", "#"}},
                               Len(url) + 1))

\* urlsplit: if url[:2] == '//' the authority is split off
SplitAuthority(url) ==
    IF Len(url) >= 2 /\ url[1] = "/" /\ url[2] = "/"
    THEN SplitNetloc(url)
    ELSE [netloc |-> <<>>, rest |-> url]

\* urlsplit: the query is what follows the first ? of the text before the fragment
SplitQuery(scheme, netloc, q, fragment) ==
    [scheme |-> scheme, netloc |-> netloc, path |-> q.head,
     query |-> q.tail, fragment |-> fragment]

\* urlsplit: the fragment is what follows the first #
SplitFragment(scheme, netloc, f) ==
    SplitQuery(scheme, netloc, SplitOn(f.head, "?"), f.tail)

SplitAfterScheme(scheme, a) == SplitFragment(scheme, a.netloc, SplitOn(a.rest, "#"))

SplitUrl(s) == SplitAfterScheme(s.scheme, SplitAuthority(s.rest))

\* urllib.parse.urlsplit
urlsplit(url) == SplitUrl(SplitScheme(url))

\* urllib.parse._splitparams: parameters hang off the last path segment; semi is the
\* position of the first ; at or after the last /, 0 if there is none
SplitParamsAt(url, semi) ==
    IF semi = 0 THEN [path |-> url, params |-> <<>>]
    ELSE [path |-> SubSeq(url, 1, semi - 1), params |-> Suffix(url, semi + 1)]

splitparams(url) ==
    SplitParamsAt(url, Find(url, ";", IF RFind(url, "/") > 0 THEN RFind(url, "/") ELSE 1))

\* urlparse: if scheme in uses_params and ';' in url
ParseParams(sp) ==
    IF sp.scheme \in uses_params /\ Find(sp.path, ";", 1) > 0
    THEN splitparams(sp.path)
    ELSE [path |-> sp.path, params |-> <<>>]

ParseResult(sp, pp) ==
    [scheme |-> sp.scheme, netloc |-> sp.netloc, path |-> pp.path,
     params |-> pp.params, query |-> sp.query, fragment |-> sp.fragment]

ParseSplit(sp) == ParseResult(sp, ParseParams(sp))

\* urllib.parse.urlparse
urlparse(url) == ParseSplit(urlsplit(url))

\* the absent link (Python None)
NoneLink == <<"None">>

\* Python truthiness of a link: None and "" are falsy
Truthy(link) == link # NoneLink /\ link # <<>>

\* f"{parsed.scheme}://{parsed.netloc}{parsed.path}"
Reassemble(parsed) == parsed.scheme \o <<":", "/", "/">> \o parsed.netloc \o parsed.path

\* MegaLeiloesMonitor.normalize_link
normalize_link(link) ==
    IF ~Truthy(link) THEN <<>> ELSE rstrip(Reassemble(urlparse(link)), "/")

(***************************************************************************)
(* Ordered dictionaries (Python dict: insertion order, assignment to an    *)
(* existing key keeps its position) as sequences of [k, v].                *)
(***************************************************************************)
DictHas(d, key) == \E i \in 1..Len(d) : d[i].k = key

DictGet(d, key) == d[CHOOSE i \in 1..Len(d) : d[i].k = key].v

DictSet(d, key, val) ==
    IF DictHas(d, key)
    THEN [i \in 1..Len(d) |-> IF d[i].k = key THEN [k |-> key, v |-> val] ELSE d[i]]
    ELSE Append(d, [k |-> key, v |-> val])

DictKeys(d) == {d[i].k : i \in 1..Len(d)}

DictValues(d) == [i \in 1..Len(d) |-> d[i].v]

SeqsUpTo(S, n) == UNION {[1..m -> S] : m \in 0..n}

(***************************************************************************)
(* Data the collaborators can deliver: rows of vw_auctions_unified and     *)
(* observations of the two sites.                                          *)
(***************************************************************************)
MEGA_SITE == <<"h", "t", "t", "p", "s", ":", "/", "/", "m">>

\* f"https://www.sodresantoro.com.br/veiculos/lote/{lot_id}" without the lot id
SODRE_LOT_URL ==
    <<"h", "t", "t", "p", "s", ":", "/", "/", "w", "w", "w", ".", "s", "o", "d", "r",
      "e", "s", "a", "n", "t", "o", "r", "o", ".", "c", "o", "m", ".", "b", "r", "/",
      "v", "e", "i", "c", "u", "l", "o", "s", "/", "l", "o", "t", "e", "/">>

\* rows of the view with source = megaleiloes
MegaRows ==
    << [link |-> MEGA_SITE \o <<"/", "a", "?", "u", "=", "1">>, category |-> "veiculos",
        source |-> "megaleiloes", external_id |-> "1", lot_number |-> "10"],
       [link |-> MEGA_SITE \o <<"/", "b", "/">>, category |-> "imoveis",
        source |-> "megaleiloes", external_id |-> "2", lot_number |-> "20"],
       [link |-> NoneLink, category |-> "imoveis",
        source |-> "megaleiloes", external_id |-> "3", lot_number |-> "30"] >>

\* rows of the view with source = sodre
SodreRows ==
    << [link |-> SODRE_LOT_URL \o <<"1">>, category |-> "veiculos", source |-> "sodre",
        external_id |-> "1", lot_number |-> "10", bid_actual |-> 0, lot_visits |-> 5],
       [link |-> SODRE_LOT_URL \o <<"2">>, category |-> "caminhoes", source |-> "sodre",
        external_id |-> "2", lot_number |-> "20", bid_actual |-> 5000, lot_visits |-> 0],
       [link |-> SODRE_LOT_URL \o <<"2", "/">>, category |-> "caminhoes",
        source |-> "sodre", external_id |-> "2", lot_number |-> "20",
        bid_actual |-> 5000, lot_visits |-> 0],
       [link |-> SODRE_LOT_URL \o <<"3">>, category |-> "veiculos", source |-> "sodre",
        external_id |-> "3", lot_number |-> "30", bid_actual |-> 400, lot_visits |-> 2] >>

\* cards the MegaLeiloes pages can show (extract_card_data results)
MegaCards ==
    { [link |-> MEGA_SITE \o <<"/", "a", "/">>, external_id |-> "J1",
       current_value |-> 150, has_bid |-> TRUE],
      [link |-> MEGA_SITE \o <<"/", "a", "#", "f">>, external_id |-> "J1",
       current_value |-> 200, has_bid |-> FALSE],
      [link |-> MEGA_SITE \o <<"/", "b", "?", "u", "=", "1">>, external_id |-> "J2",
       current_value |-> 50, has_bid |-> TRUE],
      [link |-> MEGA_SITE \o <<"/", "c">>, external_id |-> "J9",
       current_value |-> 0, has_bid |-> FALSE] }

\* lots the Sodre API can return; lot_id or id of <<>> is an absent or empty id
SodreLots ==
    { [lot_id |-> <<"1">>, id |-> <<>>, bid_actual |-> 500, bid_has_bid |-> TRUE,
       lot_visits |-> 7],
      [lot_id |-> <<>>, id |-> <<"1">>, bid_actual |-> 1000, bid_has_bid |-> TRUE,
       lot_visits |-> 9],
      [lot_id |-> <<"2">>, id |-> <<>>, bid_actual |-> 6500, bid_has_bid |-> FALSE,
       lot_visits |-> 0],
      [lot_id |-> <<"3">>, id |-> <<>>, bid_actual |-> 480, bid_has_bid |-> TRUE,
       lot_visits |-> 3],
      [lot_id |-> <<"3">>, id |-> <<>>, bid_actual |-> 450, bid_has_bid |-> TRUE,
       lot_visits |-> 2],
      [lot_id |-> <<>>, id |-> <<>>, bid_actual |-> 0, bid_has_bid |-> FALSE,
       lot_visits |-> 0] }

\* datetime.now(): seconds and microseconds of the wall clock
Micros == {0, 500000}

Times == [sec : 0..MaxSec, us : Micros]

\* record["captured_at"][:19]: the ISO text up to the seconds, the fraction dropped
Trunc19(captured_at) == captured_at.sec

VARIABLES
    integration,    \* which monitor runs: "mega" or "sodre"
    pc,             \* position of run()
    view,           \* content of vw_auctions_unified for this source
    offset,         \* load_database_items: offset
    total_loaded,   \* load_database_items: total_loaded
    fetches,        \* page reads issued
    page_len,       \* load_database_items: len(response.data) of the page being read
    row,            \* load_database_items: rows of that page already indexed
    load_ok,        \* load_database_items' return value, "pending" before it returns
    db_items,       \* self.db_items
    gathered,       \* whether the observations of the site were gathered in this run
    all_scraped,    \* run: all_scraped (mega), intercept_sodre_data: all_lots (sodre)
    api_lots,       \* self.api_lots (sodre)
    idx,            \* position of the reconciliation loop
    all_records,    \* run: all_records (mega), matched_records (sodre)
    hot_items,      \* cross_reference_data: hot_items (sodre)
    upd_queue,      \* update_base_tables: the records in by_category order, not yet tried
    upd_log,        \* update_base_tables: the updates tried, with their outcome
    updated_count,  \* update_base_tables: updated_count
    errors,         \* update_base_tables: errors
    base_tables,    \* the category tables: the last field set written per row
    batch,          \* save_bid_history: records_to_insert as submitted, <<>> before
    upserts,        \* history upserts attempted in this run
    upsert_ok,      \* whether the last upsert went through, "none" before any
    saved,          \* save_bid_history's return value
    history,        \* auction_bid_history: its rows
    result,         \* run()'s return value, "none" while it runs
    run_no,         \* the number of this run of the monitor
    nl_in, nl_out,  \* normalize_link: the last argument and its result
    nl_prev_in, nl_prev_out, nl_rel,  \* the call before, and how the arguments differ
    card,           \* extract_has_bid_robust: the card element it is given
    has_bid         \* extract_has_bid_robust: "True" or "False", "none" before it returns

loadVars == <<offset, total_loaded, fetches, page_len, row, load_ok>>

updVars == <<upd_queue, upd_log, updated_count, errors, base_tables>>

histVars == <<batch, upserts, upsert_ok, saved, history>>

obsVars == <<gathered, all_scraped, api_lots>>

runVars == <<integration, pc, view, loadVars, db_items, obsVars, idx, all_records,
             hot_items, updVars, histVars, result, run_no>>

nlVars == <<nl_in, nl_out, nl_prev_in, nl_prev_out, nl_rel>>

cardVars == <<card, has_bid>>

\* the state of the functions that are also exercised on their own
pureVars == <<nlVars, cardVars>>

vars == <<runVars, pureVars>>

\* load_database_items: page_size
page_size == 1000

RowsOf(i) == IF i = "mega" THEN MegaRows ELSE SodreRows

\* the rows of the pool that have no link
NoLinkRows(i) == {k \in 1..Len(RowsOf(i)) : ~Truthy(RowsOf(i)[k].link)}

\* the tables of the model: `full` pages of page_size rows, then the rows of `tail`.
\* The full pages hold the rows of the pool in turn, or, when `blank`, only a row
\* without link.
Views(i) ==
    {v \in [full : 0..MaxFullPages, tail : SeqsUpTo(1..Len(RowsOf(i)), MaxTail),
            blank : BOOLEAN] :
        v.blank => (v.full > 0 /\ NoLinkRows(i) # {})}

\* the rows of the pool that the full pages of the view hold
FullPageRows(i, v) ==
    IF v.full = 0 THEN {}
    ELSE IF v.blank THEN {LowestOf(NoLinkRows(i))}
    ELSE 1..Len(RowsOf(i))

ViewSize(v) == v.full * page_size + Len(v.tail)

\* row n (from 0) of the view
RowAt(i, v, n) ==
    IF n < v.full * page_size
    THEN IF v.blank THEN RowsOf(i)[LowestOf(NoLinkRows(i))]
         ELSE RowsOf(i)[(n % Len(RowsOf(i))) + 1]
    ELSE RowsOf(i)[v.tail[n - v.full * page_size + 1]]

\* .range(offset, offset + page_size - 1): len(response.data)
PageLen(v, off) ==
    LET last == IF off + page_size - 1 < ViewSize(v) - 1
                THEN off + page_size - 1 ELSE ViewSize(v) - 1
    IN  IF last < off THEN 0 ELSE last - off + 1

(***************************************************************************)
(* normalize_link on its own: a first call, then calls on arguments that   *)
(* differ from the one before in one trailing slash of the path, in the    *)
(* query string or in the fragment.                                        *)
(***************************************************************************)
NormAlphabet == {"/", "a", ";", ":"}

NormPrefixes == {<<>>, <<"h", "t", "t", "p", "s", ":">>, MEGA_SITE}

NormInputs == {p \o b : p \in NormPrefixes, b \in SeqsUpTo(NormAlphabet, MaxLen)}

Queries == {<<"u", "=", "1">>, <<"/">>, <<";", "/">>}

Fragments == {<<"f">>, <<"?">>, <<"/">>}

\* where the path of a URL text ends: before the first ? or #
PathEnd(u) == FirstOf({i \in 1..Len(u) : u[i] \in {"?", "#"}}, Len(u) + 1) - 1

\* u with one more slash at the end of its path
AddTrailingSlash(u) == SubSeq(u, 1, PathEnd(u)) \o <<"/">> \o Suffix(u, PathEnd(u) + 1)

\* u (which has no query) with the query q
WithQuery(u, q) == SubSeq(u, 1, PathEnd(u)) \o <<"?">> \o q \o Suffix(u, PathEnd(u) + 1)

\* u (which has no fragment) with the fragment f
WithFragment(u, f) == u \o <<"#">> \o f

RunIdle ==
    /\ integration = "mega"
    /\ pc = "idle"
    /\ view = [full |-> 0, tail |-> <<>>, blank |-> FALSE]
    /\ offset = 0
    /\ total_loaded = 0
    /\ fetches = 0
    /\ page_len = 0
    /\ row = 0
    /\ load_ok = "pending"
    /\ db_items = <<>>
    /\ gathered = FALSE
    /\ all_scraped = <<>>
    /\ api_lots = <<>>
    /\ idx = 1
    /\ all_records = <<>>
    /\ hot_items = <<>>
    /\ upd_queue = <<>>
    /\ upd_log = <<>>
    /\ updated_count = 0
    /\ errors = 0
    /\ base_tables = <<>>
    /\ batch = <<>>
    /\ upserts = 0
    /\ upsert_ok = "none"
    /\ saved = 0
    /\ history = <<>>
    /\ result = "none"
    /\ run_no = 1

NormIdle ==
    /\ nl_in = <<>>
    /\ nl_out = <<>>
    /\ nl_prev_in = <<>>
    /\ nl_prev_out = <<>>
    /\ nl_rel = "none"

\* no card is being looked at
CardIdle ==
    /\ card = [legal_span |-> [st |-> "absent", text |-> <<>>],
               legal_icon |-> "absent",
               parent_text |-> [st |-> "absent", text |-> <<>>],
               views_bids |-> [st |-> "absent", spans |-> <<>>]]
    /\ has_bid = "none"

InitNorm ==
    /\ RunIdle
    /\ CardIdle
    /\ nl_in \in NormInputs
    /\ nl_out = <<>>
    /\ nl_prev_in = <<>>
    /\ nl_prev_out = <<>>
    /\ nl_rel = "init"

NormalizeFirst ==
    /\ nl_rel = "init"
    /\ nl_out' = normalize_link(nl_in)
    /\ nl_rel' = "first"
    /\ UNCHANGED <<nl_in, nl_prev_in, nl_prev_out, runVars, cardVars>>

NormalizeAgain(arg, rel) ==
    /\ nl_prev_in' = nl_in
    /\ nl_prev_out' = nl_out
    /\ nl_in' = arg
    /\ nl_out' = normalize_link(arg)
    /\ nl_rel' = rel
    /\ UNCHANGED <<runVars, cardVars>>

NormalizeQuery ==
    /\ nl_rel = "first"
    /\ \E q \in Queries : NormalizeAgain(WithQuery(nl_in, q), "query")

NormalizeFragment ==
    /\ nl_rel \in {"first", "query"}
    /\ \E f \in Fragments : NormalizeAgain(WithFragment(nl_in, f), "fragment")

NormalizeSlash ==
    /\ nl_rel \in {"first", "query", "fragment"}
    /\ NormalizeAgain(AddTrailingSlash(nl_in), "slash")

NextNorm ==
    \/ NormalizeFirst
    \/ NormalizeQuery
    \/ NormalizeFragment
    \/ NormalizeSlash

SpecNorm == InitNorm /\ [][NextNorm]_vars

\* C1: two URLs (here: with scheme and host) that differ only in the query string,
\* in the fragment or in one trailing slash of the path have the same normalize_link
\* result.
IsAbsolute(u) == Len(u) >= Len(MEGA_SITE) /\ SubSeq(u, 1, Len(MEGA_SITE)) = MEGA_SITE

C1_SameForVariants ==
    (nl_rel \in {"query", "fragment", "slash"} /\ IsAbsolute(nl_prev_in))
        => nl_out = nl_prev_out

(***************************************************************************)
(* extract_has_bid_robust on its own, on the cards a page can show.        *)
(***************************************************************************)
\* the texts an element of a card can show
CardTexts ==
    {<<>>, <<"x">>, <<"0">>, <<" ", "2">>, <<"0", "3">>, <<"0", "x", "2">>}

\* what the card answers to the queries of the three strategies. st is "ok" when
\* the element is there, "absent" when the query gives None, "raises" when it raises.
\*   legal_span:  card.query_selector('span:has(i.fa-legal)') and its inner_text()
\*   legal_icon:  card.query_selector('i.fa-legal')
\*   parent_text: card.evaluate(...), the textContent of the icon's parent
\*   views_bids:  card.query_selector('.card-views-bids, ...') and its spans, each
\*                with whether it holds the icon and its inner_text()
Probes == {"ok", "absent", "raises"}

Spans == [icon : BOOLEAN, text : CardTexts]

AllCards ==
    [legal_span : [st : Probes, text : CardTexts],
     legal_icon : Probes,
     parent_text : [st : Probes, text : CardTexts],
     views_bids : [st : Probes, spans : SeqsUpTo(Spans, MaxSpans)]]

\* the cards a document can give: a span that holds the icon implies the icon, the
\* parent's text is asked for only when the icon is there, and an element that is
\* not there has no text and no spans
Cards ==
    {c \in AllCards :
        /\ c.legal_span.st = "ok" => c.legal_icon # "absent"
        /\ c.legal_span.st # "ok" => c.legal_span.text = <<>>
        /\ (\E i \in 1..Len(c.views_bids.spans) : c.views_bids.spans[i].icon)
              => (c.legal_span.st # "absent" /\ c.legal_icon # "absent")
        /\ c.legal_icon = "ok" => c.parent_text.st # "absent"
        /\ c.legal_icon # "ok" => c.parent_text.st = "absent"
        /\ c.parent_text.st # "ok" => c.parent_text.text = <<>>
        /\ c.views_bids.st # "ok" => c.views_bids.spans = <<>>}

\* s.strip() for blanks
strip(s) ==
    SubSeq(s, FirstOf({i \in 1..Len(s) : s[i] # " "}, Len(s) + 1),
              HighestOf({i \in 1..Len(s) : s[i] # " "}))

\* re.findall(r'\d+', text)[0]: the first run of digits, <<>> when there is none
FirstRunFrom(text, first) ==
    SubSeq(text, first, FirstOf({i \in first..Len(text) : text[i] \notin Digits},
                                Len(text) + 1) - 1)

FirstNumber(text) ==
    IF \A i \in 1..Len(text) : text[i] \notin Digits THEN <<>>
    ELSE FirstRunFrom(text, FirstOf({i \in 1..Len(text) : text[i] \in Digits}, 0))

DigitChars == <<"0", "1", "2", "3", "4", "5", "6", "7", "8", "9">>

DigitValue(c) == (CHOOSE i \in 1..Len(DigitChars) : DigitChars[i] = c) - 1

\* int(numbers[0])
RECURSIVE int(_)
int(digits) ==
    IF digits = <<>> THEN 0
    ELSE int(SubSeq(digits, 1, Len(digits) - 1)) * 10 + DigitValue(digits[Len(digits)])

\* the third strategy's loop over the spans of the container
RECURSIVE SpansHaveBid(_)
SpansHaveBid(spans) ==
    IF spans = <<>> THEN FALSE
    ELSE IF Head(spans).icon /\ FirstNumber(strip(Head(spans).text)) # <<>>
         THEN int(FirstNumber(strip(Head(spans).text))) > 0
         ELSE SpansHaveBid(Tail(spans))

\* the third strategy, and the return False after it
ThirdStrategy(c) ==
    IF c.views_bids.st = "raises" THEN FALSE
    ELSE IF c.views_bids.st = "ok" THEN SpansHaveBid(c.views_bids.spans)
    ELSE FALSE

\* the second strategy, then the third
SecondStrategy(c) ==
    IF c.legal_icon = "raises" THEN FALSE
    ELSE IF c.legal_icon = "ok" /\ c.parent_text.st = "raises" THEN FALSE
    ELSE IF /\ c.legal_icon = "ok"
            /\ c.parent_text.text # <<>>
            /\ FirstNumber(c.parent_text.text) # <<>>
         THEN int(FirstNumber(c.parent_text.text)) > 0
         ELSE ThirdStrategy(c)

\* a variant of extract_has_bid_robust that goes on to the next strategy when the
\* first strategy's count is 0
extract_has_bid_untilPositive(c) ==
    IF c.legal_span.st = "raises" THEN FALSE
    ELSE IF /\ c.legal_span.st = "ok"
            /\ FirstNumber(strip(c.legal_span.text)) # <<>>
            /\ int(FirstNumber(strip(c.legal_span.text))) > 0
         THEN TRUE
         ELSE SecondStrategy(c)

\* MegaLeiloesMonitor.extract_has_bid_robust
extract_has_bid_robust(c) ==
    IF c.legal_span.st = "raises" THEN FALSE
    ELSE IF c.legal_span.st = "ok" /\ FirstNumber(strip(c.legal_span.text)) # <<>>
         THEN int(FirstNumber(strip(c.legal_span.text))) > 0
         ELSE SecondStrategy(c)

InitBid ==
    /\ RunIdle
    /\ NormIdle
    /\ card \in Cards
    /\ has_bid = "none"

\* extract_card_data: has_bid = self.extract_has_bid_robust(card)
ExtractHasBid ==
    /\ has_bid = "none"
    /\ pc = "idle"
    /\ nl_rel = "none"
    /\ has_bid' = IF extract_has_bid_robust(card) THEN "True" ELSE "False"
    /\ UNCHANGED <<card, runVars, nlVars>>

NextBid == ExtractHasBid

SpecBid == InitBid /\ [][NextBid]_vars

(***************************************************************************)
(* run(): one run of a monitor.                                            *)
(***************************************************************************)
Init ==
    /\ integration \in {"mega", "sodre"}
    /\ pc = "load"
    /\ view \in Views(integration)
    /\ offset = 0
    /\ total_loaded = 0
    /\ fetches = 0
    /\ page_len = 0
    /\ row = 0
    /\ load_ok = "pending"
    /\ db_items = <<>>
    /\ gathered = FALSE
    /\ all_scraped = <<>>
    /\ api_lots = <<>>
    /\ idx = 1
    /\ all_records = <<>>
    /\ hot_items = <<>>
    /\ upd_queue = <<>>
    /\ upd_log = <<>>
    /\ updated_count = 0
    /\ errors = 0
    /\ base_tables = <<>>
    /\ batch = <<>>
    /\ upserts = 0
    /\ upsert_ok = "none"
    /\ saved = 0
    /\ history = <<>>
    /\ result = "none"
    /\ run_no = 1
    /\ NormIdle
    /\ CardIdle

\* MegaLeiloesMonitor.load_database_items: one row of a page put into the index
MegaIndexRow(d, item) ==
    IF Truthy(item.link)
    THEN DictSet(d, normalize_link(item.link),
                 [category |-> item.category,
                  source |-> item.source,
                  external_id |-> item.external_id,
                  lot_number |-> item.lot_number])
    ELSE d

\* SodreMonitor.load_database_items: one row of a page put into the index
SodreIndexRow(d, item) ==
    IF Truthy(item.link)
    THEN DictSet(d, item.link,
                 [category |-> item.category,
                  source |-> item.source,
                  external_id |-> item.external_id,
                  lot_number |-> item.lot_number,
                  prev_bid |-> item.bid_actual,
                  prev_visits |-> item.lot_visits])
    ELSE d

\* a variant of the except branch that empties the index
IndexAfterError_rollback(d) == <<>>

\* the except branch of load_database_items: it prints and returns False, and the
\* index keeps what the earlier pages put in it
IndexAfterError(d) == d

\* load_database_items: one page read. A read that raises ends the call with False,
\* an empty page ends it with True, any other page is indexed row by row.
LoadPage ==
    /\ pc = "load"
    /\ fetches' = fetches + 1
    /\ \E raised \in BOOLEAN :
        IF raised
        THEN /\ load_ok' = "False"
             /\ pc' = "loaded"
             /\ db_items' = IndexAfterError(db_items)
             /\ UNCHANGED <<page_len, row>>
        ELSE IF PageLen(view, offset) = 0
             THEN /\ load_ok' = "True"
                  /\ pc' = "loaded"
                  /\ UNCHANGED <<page_len, row, db_items>>
             ELSE /\ page_len' = PageLen(view, offset)
                  /\ row' = 0
                  /\ pc' = "rows"
                  /\ UNCHANGED <<load_ok, db_items>>
    /\ UNCHANGED <<integration, view, offset, total_loaded, obsVars, idx,
                   all_records, hot_items, updVars, histVars, result, run_no, pureVars>>

\* the index entry written by the monitor i for one row of the page
IndexRow(i, d, item) ==
    IF i = "mega" THEN MegaIndexRow(d, item) ELSE SodreIndexRow(d, item)

\* a variant of ShortPage that takes any page that is not empty for a full one
ShortPage_never(n) == FALSE

\* if len(response.data) < page_size: break
ShortPage(n) == n < page_size

\* load_database_items: one turn of `for item in response.data`, and after the last
\* row of the page the end of the while loop's turn: a short page ends the call
LoadRow(i) ==
    /\ pc = "rows"
    /\ db_items' = IndexRow(i, db_items, RowAt(integration, view, offset + row))
    /\ row' = row + 1
    /\ IF row + 1 < page_len
       THEN UNCHANGED <<total_loaded, offset, load_ok, pc>>
       ELSE /\ total_loaded' = total_loaded + page_len
            /\ IF ShortPage(page_len)
               THEN /\ load_ok' = "True"
                    /\ pc' = "loaded"
                    /\ UNCHANGED offset
               ELSE /\ offset' = offset + page_size
                    /\ pc' = "load"
                    /\ UNCHANGED load_ok
    /\ UNCHANGED <<integration, view, fetches, page_len, obsVars, idx, all_records,
                   hot_items, updVars, histVars, result, run_no, pureVars>>

Mega_load_page == integration = "mega" /\ LoadPage

Sodre_load_page == integration = "sodre" /\ LoadPage

Mega_load_database_items == integration = "mega" /\ LoadRow("mega")

Sodre_load_database_items == integration = "sodre" /\ LoadRow("sodre")

\* a variant of AfterLoad that goes on with the pages read before a failed read
AfterLoad_partial(next) ==
    /\ pc = "loaded"
    /\ IF load_ok = "False" /\ db_items = <<>>
       THEN pc' = "done" /\ result' = "False"
       ELSE IF db_items = <<>>
            THEN pc' = "done" /\ result' = "True"
            ELSE pc' = next /\ UNCHANGED result
    /\ UNCHANGED <<integration, view, loadVars, db_items, obsVars, idx, all_records,
                   hot_items, updVars, histVars, run_no, pureVars>>

\* a variant of AfterLoad that treats an empty index as a failure
AfterLoad_emptyFails(next) ==
    /\ pc = "loaded"
    /\ IF load_ok = "False"
       THEN pc' = "done" /\ result' = "False"
       ELSE IF db_items = <<>>
            THEN pc' = "done" /\ result' = "False"
            ELSE pc' = next /\ UNCHANGED result
    /\ UNCHANGED <<integration, view, loadVars, db_items, obsVars, idx, all_records,
                   hot_items, updVars, histVars, run_no, pureVars>>

\* run(): the two checks after load_database_items
AfterLoad(next) ==
    /\ pc = "loaded"
    /\ IF load_ok = "False"
       THEN pc' = "done" /\ result' = "False"
       ELSE IF db_items = <<>>
            THEN pc' = "done" /\ result' = "True"
            ELSE pc' = next /\ UNCHANGED result
    /\ UNCHANGED <<integration, view, loadVars, db_items, obsVars, idx, all_records,
                   hot_items, updVars, histVars, run_no, pureVars>>

Mega_run_loaded == integration = "mega" /\ AfterLoad("scrape")

Sodre_run_loaded == integration = "sodre" /\ AfterLoad("intercept")

\* a variant of Mega_scrape that takes the items it has seen out of the index
Mega_scrape_pops ==
    /\ integration = "mega"
    /\ pc = "scrape"
    /\ all_scraped' \in SeqsUpTo(MegaCards, MaxObs)
    /\ db_items' = SelectSeq(db_items,
                             LAMBDA e : \A j \in 1..Len(all_scraped') :
                                           normalize_link(all_scraped'[j].link) # e.k)
    /\ gathered' = TRUE
    /\ idx' = 1
    /\ pc' = "process"
    /\ UNCHANGED <<integration, view, loadVars, api_lots, all_records, hot_items,
                   updVars, histVars, result, run_no, pureVars>>

\* run(): the scraping of the category pages, whatever cards they show
Mega_scrape ==
    /\ integration = "mega"
    /\ pc = "scrape"
    /\ all_scraped' \in SeqsUpTo(MegaCards, MaxObs)
    /\ gathered' = TRUE
    /\ idx' = 1
    /\ pc' = "process"
    /\ UNCHANGED <<integration, view, loadVars, db_items, api_lots, all_records,
                   hot_items, updVars, histVars, result, run_no, pureVars>>

\* a variant of MegaRecord that takes the external id from the card
MegaRecord_fromCard(db_item, item, now) ==
    [category |-> db_item.category,
     source |-> db_item.source,
     external_id |-> item.external_id,
     lot_number |-> db_item.lot_number,
     has_bid |-> item.has_bid,
     current_value |-> item.current_value,
     captured_at |-> now]

\* MegaLeiloesMonitor.process_scraped_data: the record of a matched card
MegaRecord(db_item, item, now) ==
    [category |-> db_item.category,
     source |-> db_item.source,
     external_id |-> db_item.external_id,
     lot_number |-> db_item.lot_number,
     has_bid |-> item.has_bid,
     current_value |-> item.current_value,
     captured_at |-> now]

\* MegaLeiloesMonitor.process_scraped_data: one turn of its for loop
Mega_process_scraped_data ==
    /\ integration = "mega"
    /\ pc = "process"
    /\ idx <= Len(all_scraped)
    /\ LET item == all_scraped[idx]
           link == normalize_link(item.link)
       IN  IF ~DictHas(db_items, link)
           THEN UNCHANGED all_records
           ELSE \E now \in Times :
                    all_records' =
                        Append(all_records, MegaRecord(DictGet(db_items, link), item, now))
    /\ idx' = idx + 1
    /\ UNCHANGED <<integration, pc, view, loadVars, db_items, obsVars, hot_items,
                   updVars, histVars, result, run_no, pureVars>>

\* lot.get('lot_id') or lot.get('id')
LotId(lot) == IF lot.lot_id # <<>> THEN lot.lot_id ELSE lot.id

\* intercept_sodre_data: the loop that indexes all_lots by link
RECURSIVE IndexLots(_, _)
IndexLots(d, lots) ==
    IF lots = <<>> THEN d
    ELSE LET lot == Head(lots)
         IN  IndexLots(IF LotId(lot) # <<>>
                       THEN DictSet(d, SODRE_LOT_URL \o LotId(lot), lot)
                       ELSE d,
                       Tail(lots))

\* SodreMonitor.intercept_sodre_data and run()'s check of its result
Sodre_intercept_sodre_data ==
    /\ integration = "sodre"
    /\ pc = "intercept"
    /\ \E all_lots \in SeqsUpTo(SodreLots, MaxObs) :
        /\ all_scraped' = all_lots
        /\ api_lots' = IndexLots(api_lots, all_lots)
    /\ gathered' = TRUE
    /\ idx' = 1
    /\ IF Len(api_lots') > 0
       THEN pc' = "process" /\ UNCHANGED result
       ELSE pc' = "done" /\ result' = "False"
    /\ UNCHANGED <<integration, view, loadVars, db_items, all_records, hot_items,
                   updVars, histVars, run_no, pureVars>>

HOT_ITEM_THRESHOLD_VALUE == 1000

HOT_ITEM_THRESHOLD_PERCENT == 20

\* a variant of BidIncreasePct that gives the ratio, not the percentage
BidIncreasePct_ratio(bid_increase, prev_bid) ==
    IF prev_bid > 0 THEN bid_increase \div prev_bid ELSE 0

\* (bid_increase / prev_bid * 100) if prev_bid > 0 else 0, in whole percents
BidIncreasePct(bid_increase, prev_bid) ==
    IF prev_bid > 0 THEN (bid_increase * 100) \div prev_bid ELSE 0

\* SodreMonitor.cross_reference_data: one turn of its for loop over db_items
Sodre_cross_reference_data ==
    /\ integration = "sodre"
    /\ pc = "process"
    /\ idx <= Len(db_items)
    /\ LET link == db_items[idx].k
           db_data == db_items[idx].v
       IN  IF ~DictHas(api_lots, link)
           THEN UNCHANGED <<all_records, hot_items>>
           ELSE \E now \in Times :
                    LET api_data == DictGet(api_lots, link)
                        current_bid == api_data.bid_actual
                        visits == api_data.lot_visits
                        bid_increase == current_bid - db_data.prev_bid
                        bid_increase_pct == BidIncreasePct(bid_increase, db_data.prev_bid)
                        record == [category |-> db_data.category,
                                   source |-> db_data.source,
                                   external_id |-> db_data.external_id,
                                   lot_number |-> db_data.lot_number,
                                   bid_actual |-> current_bid,
                                   bid_has_bid |-> api_data.bid_has_bid,
                                   lot_visits |-> visits,
                                   captured_at |-> now,
                                   _bid_increase |-> bid_increase,
                                   _bid_increase_pct |-> bid_increase_pct,
                                   _visit_increase |-> visits - db_data.prev_visits]
                        is_hot == \/ bid_increase >= HOT_ITEM_THRESHOLD_VALUE
                                  \/ bid_increase_pct >= HOT_ITEM_THRESHOLD_PERCENT
                    IN  /\ all_records' = Append(all_records, record)
                        /\ hot_items' = IF is_hot THEN Append(hot_items, record)
                                        ELSE hot_items
    /\ idx' = idx + 1
    /\ UNCHANGED <<integration, pc, view, loadVars, db_items, obsVars, updVars, histVars,
                   result, run_no, pureVars>>

\* hot_items.sort(key=lambda x: x['_bid_increase_pct'], reverse=True): a stable sort,
\* here by the whole percents
RECURSIVE InsertHot(_, _)
InsertHot(sorted, item) ==
    IF sorted = <<>> THEN <<item>>
    ELSE IF Head(sorted)._bid_increase_pct >= item._bid_increase_pct
         THEN <<Head(sorted)>> \o InsertHot(Tail(sorted), item)
         ELSE <<item>> \o sorted

RECURSIVE SortHot(_)
SortHot(items) ==
    IF items = <<>> THEN <<>>
    ELSE InsertHot(SortHot(SubSeq(items, 1, Len(items) - 1)), items[Len(items)])

\* update_base_tables: by_category, then its lists one after the other
RECURSIVE ByCategory(_, _)
ByCategory(d, records) ==
    IF records = <<>> THEN d
    ELSE LET record == Head(records)
             cat == record.category
             sofar == IF DictHas(d, cat) THEN DictGet(d, cat) ELSE <<>>
         IN  ByCategory(DictSet(d, cat, Append(sofar, record)), Tail(records))

RECURSIVE Flatten(_)
Flatten(lists) == IF lists = <<>> THEN <<>> ELSE Head(lists) \o Flatten(Tail(lists))

UpdateOrder(records) == Flatten(DictValues(ByCategory(<<>>, records)))

\* run(): process_scraped_data has returned, update_base_tables is entered
Mega_run_matched ==
    /\ integration = "mega"
    /\ pc = "process"
    /\ idx > Len(all_scraped)
    /\ upd_queue' = UpdateOrder(all_records)
    /\ pc' = "update"
    /\ UNCHANGED <<integration, view, loadVars, db_items, obsVars, idx, all_records,
                   hot_items, upd_log, updated_count, errors, base_tables, histVars,
                   result, run_no, pureVars>>

\* cross_reference_data sorts its hot items and returns; without a match run() ends
Sodre_run_matched ==
    /\ integration = "sodre"
    /\ pc = "process"
    /\ idx > Len(db_items)
    /\ hot_items' = SortHot(hot_items)
    /\ IF all_records = <<>>
       THEN pc' = "done" /\ result' = "True" /\ UNCHANGED upd_queue
       ELSE pc' = "update" /\ upd_queue' = UpdateOrder(all_records) /\ UNCHANGED result
    /\ UNCHANGED <<integration, view, loadVars, db_items, obsVars, idx, all_records,
                   upd_log, updated_count, errors, base_tables, histVars, run_no,
                   pureVars>>

\* the field set MegaLeiloesMonitor.update_base_tables writes
MegaUpdateFields(record) ==
    [has_bid |-> record.has_bid,
     value |-> record.current_value,
     last_scraped_at |-> record.captured_at]

\* the field set SodreMonitor.update_base_tables writes
SodreUpdateFields(record) ==
    [bid_actual |-> record.bid_actual,
     bid_has_bid |-> record.bid_has_bid,
     lot_visits |-> record.lot_visits,
     last_scraped_at |-> record.captured_at]

\* .eq("source", ...).eq("external_id", ...) on table(category): the row updated
BaseKey(record) == <<record.category, record.source, record.external_id>>

\* a variant of RestAfter that gives up at the first update that raises
RestAfter_abort(queue, raised) == IF raised THEN <<>> ELSE Tail(queue)

\* update_base_tables: what is left to do after an update; `except ...: continue`
\* goes on with the next record
RestAfter(queue, raised) == Tail(queue)

\* update_base_tables: the update of one record, which the table may refuse
\* the fields the monitor i writes to the base table
UpdateFields(i, record) ==
    IF i = "mega" THEN MegaUpdateFields(record) ELSE SodreUpdateFields(record)

UpdateOne(i) ==
    /\ pc = "update"
    /\ upd_queue # <<>>
    /\ \E raised \in BOOLEAN :
        /\ upd_log' = Append(upd_log, [record |-> Head(upd_queue), raised |-> raised])
        /\ upd_queue' = RestAfter(upd_queue, raised)
        /\ IF raised
           THEN /\ errors' = errors + 1
                /\ UNCHANGED <<updated_count, base_tables>>
           ELSE /\ updated_count' = updated_count + 1
                /\ base_tables' = DictSet(base_tables, BaseKey(Head(upd_queue)),
                                          UpdateFields(i, Head(upd_queue)))
                /\ UNCHANGED errors
    /\ UNCHANGED <<integration, pc, view, loadVars, db_items, obsVars, idx, all_records,
                   hot_items, histVars, result, run_no, pureVars>>

Mega_update_base_tables == integration = "mega" /\ UpdateOne("mega")

Sodre_update_base_tables == integration = "sodre" /\ UpdateOne("sodre")

\* k.startswith('_') for the keys of a record
StartsWithUnderscore(k) == k \in {"_bid_increase", "_bid_increase_pct", "_visit_increase"}

\* a variant of SodreClean that submits the merged record as it is
SodreClean_asIs(record) == record

\* SodreMonitor.save_bid_history: {k: v for k, v in record.items() if not k.startswith('_')}
SodreClean(record) ==
    [k \in {f \in DOMAIN record : ~StartsWithUnderscore(f)} |-> record[k]]

\* MegaLeiloesMonitor.save_bid_history submits the records as they are
MegaClean(record) == record

\* a variant of DedupKey that keeps the fraction of the second
DedupKey_noTrunc(record) ==
    <<record.category, record.source, record.external_id, record.captured_at>>

\* save_bid_history: the key of unique_records
DedupKey(record) ==
    <<record.category, record.source, record.external_id, Trunc19(record.captured_at)>>

\* a variant of UniqueRecords in which the first record of a key stays
RECURSIVE UniqueRecords_firstWins(_, _)
UniqueRecords_firstWins(d, records) ==
    IF records = <<>> THEN d
    ELSE UniqueRecords_firstWins(
             IF DictHas(d, DedupKey(Head(records))) THEN d
             ELSE DictSet(d, DedupKey(Head(records)), Head(records)),
             Tail(records))

\* save_bid_history: unique_records filled in the order of the records
RECURSIVE UniqueRecords(_, _)
UniqueRecords(d, records) ==
    IF records = <<>> THEN d
    ELSE UniqueRecords(DictSet(d, DedupKey(Head(records)), Head(records)), Tail(records))

\* save_bid_history: records_to_insert
RecordsToInsert(records) == DictValues(UniqueRecords(<<>>, records))

\* on_conflict="category,source,external_id,captured_at": the columns as submitted
ConflictKey(rec) == <<rec.category, rec.source, rec.external_id, rec.captured_at>>

\* the upsert of a batch into auction_bid_history
RECURSIVE Upsert(_, _)
Upsert(table, rows) ==
    IF rows = <<>> THEN table
    ELSE Upsert(DictSet(table, ConflictKey(Head(rows)), Head(rows)), Tail(rows))

\* a variant of NothingToSave without the early return
NothingToSave_never(records) == FALSE

\* save_bid_history: if not records: return 0
NothingToSave(records) == records = <<>>

\* a variant of SavedCount that counts the rows of a batch that was refused
SavedCount_ignoresFailure(raised, rows) == Len(rows)

\* save_bid_history: len(response.data) of an upsert that went through, 0 from the
\* except branch
SavedCount(raised, rows) == IF raised THEN 0 ELSE Len(rows)

\* save_bid_history: clean_records
\* the record the monitor i submits for a merged record
Clean(i, record) == IF i = "mega" THEN MegaClean(record) ELSE SodreClean(record)

CleanRecords(i, records) == [n \in 1..Len(records) |-> Clean(i, records[n])]

\* save_bid_history, and the end of run()
SaveHistory(i) ==
    /\ pc = "update"
    /\ upd_queue = <<>>
    /\ IF NothingToSave(all_records)
       THEN /\ saved' = 0
            /\ UNCHANGED <<batch, upserts, upsert_ok, history>>
       ELSE /\ batch' = RecordsToInsert(CleanRecords(i, all_records))
            /\ upserts' = upserts + 1
            /\ \E raised \in BOOLEAN :
                /\ upsert_ok' = IF raised THEN "False" ELSE "True"
                /\ saved' = SavedCount(raised, batch')
                /\ history' = IF raised THEN history ELSE Upsert(history, batch')
    /\ pc' = "done"
    /\ result' = "True"
    /\ UNCHANGED <<integration, view, loadVars, db_items, obsVars, idx, all_records,
                   hot_items, updVars, run_no, pureVars>>

Mega_save_bid_history == integration = "mega" /\ SaveHistory("mega")

Sodre_save_bid_history == integration = "sodre" /\ SaveHistory("sodre")

Next ==
    \/ Mega_load_page
    \/ Sodre_load_page
    \/ Mega_load_database_items
    \/ Sodre_load_database_items
    \/ Mega_run_loaded
    \/ Sodre_run_loaded
    \/ Mega_scrape
    \/ Mega_process_scraped_data
    \/ Sodre_intercept_sodre_data
    \/ Sodre_cross_reference_data
    \/ Mega_run_matched
    \/ Sodre_run_matched
    \/ Mega_update_base_tables
    \/ Sodre_update_base_tables
    \/ Mega_save_bid_history
    \/ Sodre_save_bid_history

Spec == Init /\ [][Next]_vars

(***************************************************************************)
(* Successive runs of a monitor against one tracked item: every run starts *)
(* with a new monitor object, the category tables and auction_bid_history  *)
(* stay as the run before left them.                                       *)
(***************************************************************************)
InitRuns == Init /\ view = [full |-> 0, tail |-> <<1>>, blank |-> FALSE]

Rerun ==
    /\ pc = "done"
    /\ run_no < MaxRuns
    /\ run_no' = run_no + 1
    /\ pc' = "load"
    /\ offset' = 0
    /\ total_loaded' = 0
    /\ fetches' = 0
    /\ page_len' = 0
    /\ row' = 0
    /\ load_ok' = "pending"
    /\ db_items' = <<>>
    /\ gathered' = FALSE
    /\ all_scraped' = <<>>
    /\ api_lots' = <<>>
    /\ idx' = 1
    /\ all_records' = <<>>
    /\ hot_items' = <<>>
    /\ upd_queue' = <<>>
    /\ upd_log' = <<>>
    /\ updated_count' = 0
    /\ errors' = 0
    /\ batch' = <<>>
    /\ upserts' = 0
    /\ upsert_ok' = "none"
    /\ saved' = 0
    /\ result' = "none"
    /\ UNCHANGED <<integration, view, base_tables, history, pureVars>>

NextRuns == Next \/ Rerun

SpecRuns == InitRuns /\ [][NextRuns]_vars

(***************************************************************************)
(* Properties.                                                             *)
(***************************************************************************)

\* the dedup key as the specification states it: category, source, external id and
\* the capture time in whole seconds
SecondKey(r) == <<r.category, r.source, r.external_id, r.captured_at.sec>>

SameIdentity(r, entry) ==
    /\ r.category = entry.category
    /\ r.source = entry.source
    /\ r.external_id = entry.external_id
    /\ r.lot_number = entry.lot_number

\* the observations of the run with their raw links
ObservedLinks ==
    IF integration = "mega"
    THEN {all_scraped[j].link : j \in 1..Len(all_scraped)}
    ELSE DictKeys(api_lots)

\* record r carries the values of an observation with link l
CarriesValuesOf(r, l) ==
    IF integration = "mega"
    THEN \E j \in 1..Len(all_scraped) :
            /\ all_scraped[j].link = l
            /\ r.current_value = all_scraped[j].current_value
            /\ r.has_bid = all_scraped[j].has_bid
    ELSE /\ r.bid_actual = DictGet(api_lots, l).bid_actual
         /\ r.bid_has_bid = DictGet(api_lots, l).bid_has_bid
         /\ r.lot_visits = DictGet(api_lots, l).lot_visits

\* C2: every merged record belongs to an observation whose normalized link is a key
\* of the index, and has the category, source, external id and lot number of that
\* index entry; there are no more records than observations with such a link.
C2_OnlyMatchedObservations ==
    /\ \A n \in 1..Len(all_records) :
        \E l \in ObservedLinks :
            /\ CarriesValuesOf(all_records[n], l)
            /\ DictHas(db_items, normalize_link(l))
            /\ SameIdentity(all_records[n], DictGet(db_items, normalize_link(l)))
    /\ all_records # <<>> =>
        IF integration = "mega"
        THEN Len(all_records) <=
                Cardinality({j \in 1..Len(all_scraped) :
                                DictHas(db_items, normalize_link(all_scraped[j].link))})
        ELSE Len(all_records) <=
                Cardinality({l \in DictKeys(api_lots) :
                                DictHas(db_items, normalize_link(l))})

\* a run that reconciled one matched and one unmatched observation
C2_Witness ==
    /\ pc = "done"
    /\ Len(all_records) = 1
    /\ \E l \in ObservedLinks : ~DictHas(db_items, normalize_link(l))

\* the record save_bid_history works on: the Sodre monitor drops the analysis fields
CleanOf(r) == IF integration = "mega" THEN r ELSE SodreClean(r)

\* C3: the batch submitted to the history upsert holds exactly one record per key
\* (category, source, external id, capture second), and for each key the last record
\* of the input with that key.
C3_OnePerKeyLastWins ==
    upserts > 0 =>
        /\ \A i, j \in 1..Len(batch) : i # j => SecondKey(batch[i]) # SecondKey(batch[j])
        /\ \A n \in 1..Len(all_records) :
            \E i \in 1..Len(batch) : SecondKey(batch[i]) = SecondKey(all_records[n])
        /\ \A i \in 1..Len(batch) :
            \E n \in 1..Len(all_records) :
                /\ batch[i] = CleanOf(all_records[n])
                /\ \A m \in (n + 1)..Len(all_records) :
                    SecondKey(all_records[m]) # SecondKey(batch[i])

\* a batch in which a later record replaced an earlier, different one of the same key
C3_Witness ==
    /\ integration = "mega"
    /\ upserts > 0
    /\ Len(all_records) = 2
    /\ SecondKey(all_records[1]) = SecondKey(all_records[2])
    /\ all_records[1].current_value # all_records[2].current_value
    /\ batch = <<all_records[2]>>

\* the records after position n repeat keys of the records up to n
RepeatsFrom(n) ==
    \A m \in (n + 1)..Len(all_records) :
        \E j \in 1..n : SecondKey(all_records[m]) = SecondKey(all_records[j])

\* C4: a record list R followed by copies of records of R stamped in the same capture
\* seconds submits as many rows as R alone, and persists as many when the store
\* confirms them; one observation fed twice in one capture second gives one row.
C4_DedupIdempotent ==
    upserts > 0 =>
        \A n \in 1..Len(all_records) :
            RepeatsFrom(n) =>
                /\ Len(batch) =
                     Len(RecordsToInsert(CleanRecords(integration,
                                                      SubSeq(all_records, 1, n))))
                /\ upsert_ok = "True" => saved = Len(batch)
                /\ n = 1 => Len(batch) = 1

\* one record fed twice in the same second, at different microseconds: one row saved
C4_Witness ==
    /\ upsert_ok = "True"
    /\ Len(all_records) = 2
    /\ SecondKey(all_records[1]) = SecondKey(all_records[2])
    /\ all_records[1].captured_at # all_records[2].captured_at
    /\ saved = 1

\* C5: auction_bid_history holds at most one row per category, source, external id
\* and capture second, whatever save_bid_history calls were made.
C5_OneRowPerSecond ==
    \A i, j \in 1..Len(history) :
        i # j => SecondKey(history[i].v) # SecondKey(history[j].v)

Count(seq, x) == Cardinality({i \in 1..Len(seq) : seq[i] = x})

Raised(log) == {i \in 1..Len(log) : log[i].raised}

\* update_base_tables has returned
UpdatesReturned ==
    \/ pc = "update" /\ upd_queue = <<>>
    \/ pc = "done" /\ all_records # <<>>

\* C6: update_base_tables tries exactly one update per input record whatever the
\* outcome of the earlier ones, counts the failures, and returns the number of
\* updates that did not fail.
C6_OneUpdatePerRecord ==
    /\ pc = "update" => Len(upd_log) + Len(upd_queue) = Len(all_records)
    /\ UpdatesReturned =>
        /\ Len(upd_log) = Len(all_records)
        /\ \A n \in 1..Len(all_records) :
            Count([i \in 1..Len(upd_log) |-> upd_log[i].record], all_records[n])
                = Count(all_records, all_records[n])
        /\ errors = Cardinality(Raised(upd_log))
        /\ updated_count = Len(upd_log) - Cardinality(Raised(upd_log))
        /\ updated_count + errors = Len(all_records)

\* a failed update followed by a successful one of another category
C6_Witness ==
    /\ UpdatesReturned
    /\ Len(upd_log) = 2
    /\ upd_log[1].raised
    /\ ~upd_log[2].raised
    /\ upd_log[1].record.category # upd_log[2].record.category

\* the last update of log entry n's row that went through
LastApplied(n) ==
    CHOOSE m \in 1..Len(upd_log) :
        /\ ~upd_log[m].raised
        /\ BaseKey(upd_log[m].record) = BaseKey(upd_log[n].record)
        /\ \A k \in (m + 1)..Len(upd_log) :
            upd_log[k].raised \/ BaseKey(upd_log[k].record) # BaseKey(upd_log[n].record)

\* C7: history write and base-table updates fail independently: a refused history
\* upsert returns 0, the run still returns True and the updates made stay; and the
\* upsert is attempted with all matched records whatever updates failed.
C7_IndependentFailures ==
    (pc = "done" /\ all_records # <<>>) =>
        /\ result = "True"
        /\ upserts = 1
        /\ {SecondKey(batch[i]) : i \in 1..Len(batch)}
             = {SecondKey(all_records[n]) : n \in 1..Len(all_records)}
        /\ upsert_ok = "False" => saved = 0
        /\ \A n \in 1..Len(upd_log) :
            ~upd_log[n].raised =>
                /\ DictHas(base_tables, BaseKey(upd_log[n].record))
                /\ DictGet(base_tables, BaseKey(upd_log[n].record)).last_scraped_at
                     = upd_log[LastApplied(n)].record.captured_at

\* a run with a failed update, a successful update and a refused history upsert
C7_Witness ==
    /\ pc = "done"
    /\ upsert_ok = "False"
    /\ errors > 0
    /\ updated_count > 0

\* C8: a page read of the view that raises is fatal for the run: run() returns
\* False and gathers nothing, updates nothing and upserts nothing.
C8_FailedReadIsFatal ==
    load_ok = "False" =>
        /\ pc \in {"loaded", "done"}
        /\ pc = "done" => result = "False"
        /\ ~gathered
        /\ all_records = <<>>
        /\ upd_log = <<>>
        /\ base_tables = <<>>
        /\ upserts = 0
        /\ history = <<>>

\* a run that ended after the read of its second page failed
C8_Witness ==
    /\ pc = "done"
    /\ load_ok = "False"
    /\ fetches = 2
    /\ db_items # <<>>

\* a finished run with a non-empty index whose site gave no observation
NoObservations ==
    /\ pc = "done"
    /\ load_ok = "True"
    /\ db_items # <<>>
    /\ gathered
    /\ all_scraped = <<>>

C10_NoItemsIsNoOp ==
    (pc = "done" /\ load_ok = "True" /\ db_items = <<>>) =>
        /\ result = "True"
        /\ ~gathered
        /\ all_records = <<>>
        /\ upd_log = <<>>
        /\ base_tables = <<>>
        /\ upserts = 0
        /\ history = <<>>

\* a finished run whose view held rows, none of them with a link
C10_Witness ==
    /\ pc = "done"
    /\ load_ok = "True"
    /\ db_items = <<>>
    /\ total_loaded > 0

\* the rows of the view that have a link
LinkedRows == {n \in 0..(ViewSize(view) - 1) : Truthy(RowAt(integration, view, n).link)}

\* the index key the monitor gives a row of the view
KeyOfRow(n) ==
    IF integration = "mega"
    THEN normalize_link(RowAt(integration, view, n).link)
    ELSE RowAt(integration, view, n).link

\* C11: the pages are read at the offsets 0, 1000, 2000, ... and the load ends with
\* the first page of fewer than 1000 rows, an empty one included: without a read
\* error a view of N rows takes N \div 1000 + 1 fetches, and the index holds one
\* entry per distinct key of the rows that have a link.
C11_Pagination ==
    /\ pc = "load" => offset = page_size * fetches
    /\ pc = "rows" => (/\ offset = page_size * (fetches - 1)
                       /\ page_len = PageLen(view, offset)
                       /\ offset + page_len <= ViewSize(view))
    /\ load_ok = "True" =>
        /\ fetches = (ViewSize(view) \div page_size) + 1
        /\ total_loaded = ViewSize(view)
    /\ (pc = "loaded" /\ load_ok = "True") =>
        /\ DictKeys(db_items) = {KeyOfRow(n) : n \in LinkedRows}
        /\ Len(db_items) = Cardinality({KeyOfRow(n) : n \in LinkedRows})
        /\ Len(db_items) <= ViewSize(view)

\* a view of two full pages and a short one, loaded in three fetches, with fewer
\* index entries than rows
C11_Witness ==
    /\ pc = "loaded"
    /\ load_ok = "True"
    /\ view.full = 2
    /\ view.tail # <<>>
    /\ fetches = 3
    /\ Len(db_items) < ViewSize(view)

\* the delta rule of the hot classification for a prior and a current value
HotRule(prior, current) ==
    \/ current - prior >= 1000
    \/ prior > 0 /\ (current - prior) * 100 >= 20 * prior

\* the prior value the index holds for the item of record r
PriorOf(r) ==
    db_items[CHOOSE k \in 1..Len(db_items) : SameIdentity(r, db_items[k].v)].v.prev_bid

IsHot(r) == \E h \in 1..Len(hot_items) : hot_items[h] = r

C13_UpdatesOnDedupOutput ==
    /\ \A i, j \in 1..Len(upd_log) :
        i # j => SecondKey(upd_log[i].record) # SecondKey(upd_log[j].record)
    /\ \A i \in 1..Len(upd_log) :
        \E n \in 1..Len(all_records) :
            /\ upd_log[i].record = all_records[n]
            /\ \A m \in (n + 1)..Len(all_records) :
                SecondKey(all_records[m]) # SecondKey(all_records[n])

\* the distinct rows of the view
TrackedRows ==
    {RowsOf(integration)[k] :
        k \in FullPageRows(integration, view)
                \cup {view.tail[j] : j \in 1..Len(view.tail)}}

\* reconciliation has gone through all its input
Reconciled ==
    /\ load_ok = "True"
    /\ gathered
    /\ \/ pc \in {"update", "done"}
       \/ pc = "process" /\ idx > (IF integration = "mega" THEN Len(all_scraped)
                                   ELSE Len(db_items))

\* C14: a tracked item and an observation whose links are equal once normalized
\* (they differ in the query string or in a trailing slash only) are matched: the
\* reconciliation gives a merged record of that item with the observation's values.
C14_MatchedByNormalizedLink ==
    Reconciled =>
        \A item \in TrackedRows :
            \A l \in ObservedLinks :
                (Truthy(item.link) /\ normalize_link(l) = normalize_link(item.link)) =>
                    \E n \in 1..Len(all_records) :
                        /\ SameIdentity(all_records[n], item)
                        /\ CarriesValuesOf(all_records[n], l)

\* the number of observations in the reconciliation's input
ObservationCount == IF integration = "mega" THEN Len(all_scraped) ELSE Len(api_lots)

\* record r is the merged record of observation i of the input
RecordOf(r, i) ==
    IF integration = "mega"
    THEN /\ DictHas(db_items, normalize_link(all_scraped[i].link))
         /\ SameIdentity(r, DictGet(db_items, normalize_link(all_scraped[i].link)))
         /\ r.current_value = all_scraped[i].current_value
         /\ r.has_bid = all_scraped[i].has_bid
    ELSE /\ DictHas(db_items, api_lots[i].k)
         /\ SameIdentity(r, DictGet(db_items, api_lots[i].k))
         /\ r.bid_actual = api_lots[i].v.bid_actual
         /\ r.lot_visits = api_lots[i].v.lot_visits

\* C15: the merged records are in the order of their observations: of two records
\* the earlier one belongs to an observation that precedes one of the later record.
C15_OutputFollowsInput ==
    Reconciled =>
        \A m, n \in 1..Len(all_records) :
            m < n =>
                \E i, j \in 1..ObservationCount :
                    /\ i < j
                    /\ RecordOf(all_records[m], i)
                    /\ RecordOf(all_records[n], j)

\* the number of slashes at the end of the text s
TrailingSlashes(s) ==
    Len(s) - (CHOOSE i \in 0..Len(s) :
                /\ i > 0 => s[i] # "/"
                /\ \A j \in (i + 1)..Len(s) : s[j] = "/")

\* a URL text of scheme, host and path, without query and fragment
PlainUrl(u) ==
    /\ IsAbsolute(u)
    /\ Len(u) > Len(MEGA_SITE)
    /\ u[Len(MEGA_SITE) + 1] = "/"
    /\ \A i \in 1..Len(u) : u[i] \notin {"?", "#"}

\* C16: normalize_link strips exactly one trailing slash: for a URL of scheme, host
\* and a path that ends in k >= 1 slashes the result is scheme://host/path with
\* k - 1 slashes at its end.
C16_StripsOneSlash ==
    (nl_rel # "init" /\ PlainUrl(nl_in) /\ TrailingSlashes(nl_in) >= 1) =>
        /\ IsAbsolute(nl_out)
        /\ TrailingSlashes(nl_out) = TrailingSlashes(nl_in) - 1

\* the text does not parse into a scheme and a host
Unparsable(u) == urlparse(u).scheme = <<>> \/ urlparse(u).netloc = <<>>

\* C17: normalize_link gives the empty string for empty input and for input that
\* does not parse into a scheme and a host.
C17_EmptyForUnparsable ==
    (nl_rel # "init" /\ (~Truthy(nl_in) \/ Unparsable(nl_in))) => nl_out = <<>>

\* the analysis fields of a merged record
DeltaFields == {"_bid_increase", "_bid_increase_pct", "_visit_increase"}

\* C18: the delta fields are never persisted: no record submitted to the history
\* upsert, no row of the history and no field set written to a base table has one
\* of the '_' analysis fields, for hot items and others alike.
C18_DeltasNotPersisted ==
    /\ \A i \in 1..Len(batch) : DOMAIN batch[i] \cap DeltaFields = {}
    /\ \A i \in 1..Len(history) : DOMAIN history[i].v \cap DeltaFields = {}
    /\ \A i \in 1..Len(base_tables) : DOMAIN base_tables[i].v \cap DeltaFields = {}

\* a Sodre run that wrote a hot and a not hot record, both carrying delta fields
C18_Witness ==
    /\ integration = "sodre"
    /\ pc = "done"
    /\ Len(all_records) = 2
    /\ Len(hot_items) = 1
    /\ \A n \in 1..2 : DeltaFields \subseteq DOMAIN all_records[n]
    /\ Len(history) = 2
    /\ Len(base_tables) = 2

\* C19: once load_database_items has returned, no step of the run changes the
\* tracked-item index: its keys and its entries, prior values included, stay.
C19_IndexImmutable == [][load_ok # "pending" => db_items' = db_items]_vars

\* a finished run that matched, updated and saved with a non-empty index
C19_Witness ==
    /\ pc = "done"
    /\ load_ok = "True"
    /\ db_items # <<>>
    /\ all_records # <<>>
    /\ base_tables # <<>>
    /\ history # <<>>

\* the count a text yields: the number of its first run of digits, -1 without digits
CountIn(text) == IF FirstNumber(text) = <<>> THEN -1 ELSE int(FirstNumber(text))

\* the first span of the container that holds the icon and shows digits, 0 if none
CountingSpan(spans) ==
    FirstOf({i \in 1..Len(spans) : spans[i].icon /\ CountIn(spans[i].text) >= 0}, 0)

\* the count each strategy yields for the card, -1 when it yields none
Count1(c) == IF c.legal_span.st = "ok" THEN CountIn(c.legal_span.text) ELSE -1

Count2(c) == IF c.parent_text.st = "ok" THEN CountIn(c.parent_text.text) ELSE -1

Count3(c) ==
    IF CountingSpan(c.views_bids.spans) = 0 THEN -1
    ELSE CountIn(c.views_bids.spans[CountingSpan(c.views_bids.spans)].text)

\* a query of the first, of the second, of the third strategy raises
Raises1(c) == c.legal_span.st = "raises"

Raises2(c) == c.legal_icon = "raises" \/ c.parent_text.st = "raises"

Raises3(c) == c.views_bids.st = "raises"

\* C20: the strategies are tried in the order span, icon's parent, container, and
\* the result is (count > 0) for the first one that yields a count, later ones not
\* being consulted even when that count is 0; the result is False when none
\* yields a count or when a step on the way raises.
C20_FirstCountDecides ==
    has_bid # "none" =>
        (has_bid = "True") =
            IF Raises1(card) THEN FALSE
            ELSE IF Count1(card) >= 0 THEN Count1(card) > 0
            ELSE IF Raises2(card) THEN FALSE
            ELSE IF Count2(card) >= 0 THEN Count2(card) > 0
            ELSE IF Raises3(card) THEN FALSE
            ELSE Count3(card) > 0

\* the first strategy gave the count 0 and the second one would have given 2
C20_Witness ==
    /\ has_bid = "False"
    /\ Count1(card) = 0
    /\ Count2(card) = 2

\* the rows with a link of the pages read before the current offset
LinkedRowsBefore(off) == {n \in LinkedRows : n < off}

\* a load that has returned False
LoadFailed == pc = "loaded" /\ load_ok = "False"

\* C21 as stated: a load that fails leaves in the index every entry taken from the
\* pages read before the failing one, and the index is empty then only if the first
\* page failed.
C21_NoRollbackEmptyOnlyFirst ==
    LoadFailed =>
        /\ offset = page_size * (fetches - 1)
        /\ DictKeys(db_items) = {KeyOfRow(n) : n \in LinkedRowsBefore(offset)}
        /\ db_items = <<>> => fetches = 1

\* C21, amended: a load that fails leaves in the index every entry taken from the
\* pages read before the failing one; the index is empty then only if those pages
\* gave no entry (the first page failed, or no row before had a link).
C21_NoRollback ==
    LoadFailed =>
        /\ offset = page_size * (fetches - 1)
        /\ DictKeys(db_items) = {KeyOfRow(n) : n \in LinkedRowsBefore(offset)}
        /\ Len(db_items) = Cardinality({KeyOfRow(n) : n \in LinkedRowsBefore(offset)})
        /\ db_items = <<>> => LinkedRowsBefore(offset) = {}
        /\ fetches = 1 => db_items = <<>>

\* the read of the third page failed and the index holds the entries of two pages
C21_Witness ==
    /\ LoadFailed
    /\ fetches = 3
    /\ db_items # <<>>
    /\ ~view.blank

====
